---------------------------- MODULE Spec2Model ----------------------------
(***************************************************************************)
(* A model of the imposition engine of TTSCards, pdf_generation.py.        *)
(*                                                                         *)
(* generate_pdf is modelled as a sequential state machine: pc is the       *)
(* position inside the function, the other variables are its arguments,    *)
(* its locals and the effects it has on its collaborators (logger, file    *)
(* system, PDF writer, web browser).                                       *)
(*                                                                         *)
(* Lengths given in millimetres (gutter_margin_size, bleed_width) are kept *)
(* in tenths of a millimetre so that they stay integers; the divisor 25.4  *)
(* of the source becomes 254.                                              *)
(***************************************************************************)
EXTENDS Integers, Sequences, FiniteSets, TLC

(***************************************************************************)
(* Bounds of the model.                                                    *)
(***************************************************************************)
MaxImages == 10

(***************************************************************************)
(* The arguments generate_pdf is run with.                                 *)
(***************************************************************************)
\* sheet sizes in pixels at 300 dpi: Letter (callbacks.SHEET_SIZES) and a small sheet
SheetSizes == {<<2550, 3300>>, <<120, 90>>}
\* card lengths in pixels at 300 dpi: standard (callbacks.CARD_SIZES) and a small card
CardLengths == {1045, 40}
\* 0 is what the DPI entry of the GUI yields when it is cleared to 0
Dpis == {300, 150, 0}
\* gutter margins in tenths of a millimetre: none, 0.5 mm, 120 mm
GutterMargins == {0, 5, 1200}
\* bleed widths in tenths of a millimetre: the default 1.5 mm
BleedWidths == {15}
LineWidths == {1}
\* (width, height) of the decoded input images
ImageSizes == {<<734, 1045>>, <<100, 50>>}

VARIABLES
    \* arguments
    images, sheet_size, card_length, dpi, draw_cut_lines, generate_bleed,
    sharpen_text, gutter_margin_size, cut_lines_on_margin_only,
    no_cut_lines_on_last_sheet, bleed_width, line_width,
    \* locals
    converted_card_length, converted_sheet_size, converted_gutter_margin_size,
    card_width, no_bleed_card_size, converted_bleed_size,
    num_cards_x, num_cards_y, num_sheets, grid_size, start_x, start_y,
    sheets, sheet, i, j, card,
    \* position and outcome
    pc, raised,
    \* generate_bleed_for_image: argument and locals
    image, bleed_size, left_region, bottom_region, right_region, top_region,
    new_image,
    \* sharpen_text_on_image: locals
    image_cv, data, mask, blurred, sharpened, sharpened_image,
    \* start_script: arguments, the cards loaded and the calls of generate_pdf
    path, split_double_and_single, double_only, single_only,
    skip_pdf_generation, script_images, double_sided_images,
    single_sided_images, pdf_calls,
    \* Tooltip: attributes, and the timers and windows of Tk
    id, tip_window, timers, windows, last_event, events,
    \* effects on the collaborators
    error_log, dirs_made, saved, opened

args == <<images, sheet_size, card_length, dpi, draw_cut_lines, generate_bleed,
          sharpen_text, gutter_margin_size, cut_lines_on_margin_only,
          no_cut_lines_on_last_sheet, bleed_width, line_width>>

conversions == <<converted_card_length, converted_sheet_size,
                 converted_gutter_margin_size, card_width, no_bleed_card_size,
                 converted_bleed_size>>

counts == <<num_cards_x, num_cards_y>>

plan == <<num_sheets, grid_size, start_x, start_y>>

effects == <<error_log, dirs_made, saved, opened>>

bleed_locals == <<left_region, bottom_region, right_region, top_region,
                  new_image>>

sharpen_locals == <<image_cv, data, mask, blurred, sharpened, sharpened_image>>

transforms == <<image, bleed_size, bleed_locals, sharpen_locals>>

script_args == <<path, split_double_and_single, double_only, single_only,
                 skip_pdf_generation>>

script_locals == <<script_images, double_sided_images, single_sided_images>>

tooltip == <<id, tip_window, timers, windows, last_event, events>>

\* what neither generate_pdf nor the transformations of an image touch
app == <<script_args, script_locals, pdf_calls, tooltip>>

vars == <<args, conversions, counts, plan, sheets, sheet, i, j, card, pc,
          raised, effects, transforms, app>>

(***************************************************************************)
(* Python arithmetic.                                                      *)
(***************************************************************************)
\* int(n / d) for d > 0: true division, then truncation toward zero
\* a variant of Trunc that rounds down, away from zero below zero
Trunc_Floor(n, d) == n \div d

Trunc(n, d) == IF n >= 0 THEN n \div d ELSE -((-n) \div d)

\* a // b for b # 0: the floor of the quotient, whatever the signs
FloorDiv(a, b) == IF b > 0 THEN a \div b ELSE (-a) \div (-b)

\* a % b for b # 0: the remainder has the sign of b
PyMod(a, b) == a - b * FloorDiv(a, b)

(***************************************************************************)
(* namedtuple Size                                                         *)
(***************************************************************************)
Size(width, length) == [width |-> width, length |-> length]

\* Python's None, and the mark of a key that a dict does not have; the
\* images, the timers and the windows are numbered from 1
None == 0

Absent == -1

NoSheet == [index |-> -1, size |-> <<0, 0>>, calls |-> <<>>]

NoCard == [image |-> -1, width |-> 0, height |-> 0, sharpened |-> FALSE,
           bled |-> FALSE]

(***************************************************************************)
(* Images pixel by pixel, for generate_bleed_for_image and                 *)
(* sharpen_text_on_image: a width, a height and one value of 0 .. 255 for  *)
(* each point (x, y), x from 0 to width - 1 left to right and y from 0 to  *)
(* height - 1 top to bottom.                                               *)
(***************************************************************************)
Points(w, h) == (0 .. w - 1) \X (0 .. h - 1)

NoImage == [width |-> 0, height |-> 0, px |-> [p \in Points(0, 0) |-> 0]]

(***************************************************************************)
(* The locals and the collaborators before generate_pdf has run: nothing   *)
(* is computed, logged or written yet.                                     *)
(***************************************************************************)
Uncalled ==
    /\ converted_card_length = 0
    /\ converted_sheet_size = <<0, 0>>
    /\ converted_gutter_margin_size = 0
    /\ card_width = 0
    /\ no_bleed_card_size = Size(0, 0)
    /\ converted_bleed_size = 0
    /\ num_cards_x = 0
    /\ num_cards_y = 0
    /\ num_sheets = 0
    /\ grid_size = <<0, 0>>
    /\ start_x = 0
    /\ start_y = 0
    /\ sheets = <<>>
    /\ sheet = NoSheet
    /\ i = 0
    /\ j = 0
    /\ card = NoCard
    /\ raised = "none"
    /\ error_log = <<>>
    /\ dirs_made = <<>>
    /\ saved = <<>>
    /\ opened = 0

\* no image is in the hands of generate_bleed_for_image
NoBleedCall ==
    /\ bleed_size = 0
    /\ left_region = NoImage
    /\ bottom_region = NoImage
    /\ right_region = NoImage
    /\ top_region = NoImage
    /\ new_image = NoImage

\* no image is in the hands of sharpen_text_on_image
NoSharpenCall ==
    /\ image_cv = NoImage
    /\ data = <<>>
    /\ mask = NoImage
    /\ blurred = NoImage
    /\ sharpened = NoImage
    /\ sharpened_image = NoImage

\* start_script is not running
NoScriptRun ==
    /\ path = "none"
    /\ split_double_and_single = FALSE
    /\ double_only = FALSE
    /\ single_only = FALSE
    /\ skip_pdf_generation = FALSE
    /\ script_images = <<>>
    /\ double_sided_images = <<>>
    /\ single_sided_images = <<>>
    /\ pdf_calls = <<>>

\* no Tooltip is followed
NoTooltip ==
    /\ id = None
    /\ tip_window = None
    /\ timers = {}
    /\ windows = {}
    /\ last_event = "none"
    /\ events = 0

\* the call of generate_pdf: the transformations of single images are
\* followed by their outcome only
Start ==
    /\ Uncalled
    /\ pc = "convert"
    /\ image = NoImage
    /\ NoBleedCall
    /\ NoSharpenCall
    /\ NoScriptRun
    /\ NoTooltip

(***************************************************************************)
(* The state at the call of generate_pdf.  The list of images has a first  *)
(* image, whose size decides the card width, and the other images, which   *)
(* may have another aspect ratio.                                          *)
(***************************************************************************)
Init ==
    /\ \E n \in 0 .. MaxImages : \E first \in ImageSizes : \E rest \in ImageSizes :
          images = [k \in 1 .. n |-> IF k = 1 THEN first ELSE rest]
    /\ sheet_size \in SheetSizes
    /\ card_length \in CardLengths
    /\ dpi \in Dpis
    /\ draw_cut_lines \in BOOLEAN
    /\ generate_bleed \in BOOLEAN
    /\ sharpen_text \in BOOLEAN
    /\ gutter_margin_size \in GutterMargins
    /\ cut_lines_on_margin_only \in BOOLEAN
    /\ no_cut_lines_on_last_sheet \in BOOLEAN
    /\ bleed_width \in BleedWidths
    /\ line_width \in LineWidths
    /\ Start

(***************************************************************************)
(* Lines 234-263: the unit conversions, the card width derived from the    *)
(* first image and the bleed.  images[0] raises IndexError on an empty     *)
(* list, after the first three conversions.  raised names the exception    *)
(* that left generate_pdf and the line that raised it.                     *)
(***************************************************************************)
ConvertedCardLength == Trunc(card_length * dpi, 300)

ConvertedSheetSize ==
    <<Trunc(sheet_size[1] * dpi, 300), Trunc(sheet_size[2] * dpi, 300)>>

\* a variant of ConvertedGutterMarginSize that rounds to the nearest pixel
ConvertedGutterMarginSize_Rounded ==
    Trunc(2 * gutter_margin_size * dpi + 254, 508)

ConvertedGutterMarginSize == Trunc(gutter_margin_size * dpi, 254)

ConvertedBleedSize == IF generate_bleed THEN Trunc(bleed_width * dpi, 254) ELSE 0

\* a variant of FirstCardWidth that takes the aspect ratio upside down
FirstCardWidth_Inverted == Trunc(ConvertedCardLength * images[1][2], images[1][1])

FirstCardWidth == Trunc(ConvertedCardLength * images[1][1], images[1][2])

Convert ==
    /\ pc = "convert"
    /\ converted_sheet_size' = ConvertedSheetSize
    /\ converted_gutter_margin_size' = ConvertedGutterMarginSize
    /\ IF Len(images) = 0
          THEN /\ raised' = "IndexError:247"
               /\ pc' = "raised"
               /\ converted_card_length' = ConvertedCardLength
               /\ UNCHANGED <<card_width, no_bleed_card_size, converted_bleed_size>>
          ELSE /\ no_bleed_card_size' = Size(FirstCardWidth, ConvertedCardLength)
               /\ converted_bleed_size' = ConvertedBleedSize
               /\ card_width' = FirstCardWidth + 2 * ConvertedBleedSize
               /\ converted_card_length' = ConvertedCardLength + 2 * ConvertedBleedSize
               /\ pc' = "count"
               /\ UNCHANGED raised
    /\ UNCHANGED <<app, transforms, args, counts, plan, sheets, sheet, i, j, card, effects>>

(***************************************************************************)
(* Lines 265-277: the number of cards that fit on a sheet.  A card width   *)
(* or length of 0 makes // raise ZeroDivisionError; a count of 0 is logged *)
(* as an error and generate_pdf returns.                                   *)
(***************************************************************************)
\* (sheet - 2 * gutter) // card, the expression of both counts
CardsFit(sheet_dim, gutter, card_dim) == FloorDiv(sheet_dim - 2 * gutter, card_dim)

\* a variant of NumCardsX that takes the gutter off one side of the sheet only
NumCardsX_OneGutter ==
    FloorDiv(converted_sheet_size[1] - converted_gutter_margin_size, card_width)

NumCardsX ==
    CardsFit(converted_sheet_size[1], converted_gutter_margin_size, card_width)

NumCardsY ==
    CardsFit(converted_sheet_size[2], converted_gutter_margin_size,
             converted_card_length)

\* a variant of CannotFit that gives up only when neither direction fits a card
CannotFit_Both(nx, ny) == nx = 0 /\ ny = 0

CannotFit(nx, ny) == nx = 0 \/ ny = 0

CountCards ==
    /\ pc = "count"
    /\ IF card_width = 0 \/ converted_card_length = 0
          THEN /\ raised' = "ZeroDivisionError:266"
               /\ pc' = "raised"
               /\ num_cards_x' = IF card_width = 0 THEN num_cards_x ELSE NumCardsX
               /\ UNCHANGED <<num_cards_y, error_log>>
          ELSE /\ num_cards_x' = NumCardsX
               /\ num_cards_y' = NumCardsY
               /\ IF CannotFit(NumCardsX, NumCardsY)
                     THEN /\ error_log' = Append(error_log, "Cannot fit any cards on the sheet.")
                          /\ pc' = "returned"
                     ELSE /\ pc' = "plan"
                          /\ UNCHANGED error_log
               /\ UNCHANGED raised
    /\ UNCHANGED <<app, transforms, args, conversions, plan, sheets, sheet, i, j, card,
                   dirs_made, saved, opened>>

(***************************************************************************)
(* Lines 279-296: the number of sheets, the size of the grid and the       *)
(* position that centers the grid on the sheet.                            *)
(***************************************************************************)
\* a variant of NumSheets that rounds down
NumSheets_RoundDown == FloorDiv(Len(images), num_cards_x * num_cards_y)

NumSheets ==
    FloorDiv(Len(images) + num_cards_x * num_cards_y - 1, num_cards_x * num_cards_y)

GridSize ==
    <<num_cards_x * card_width + 2 * converted_gutter_margin_size,
      num_cards_y * converted_card_length + 2 * converted_gutter_margin_size>>

PlanGrid ==
    /\ pc = "plan"
    /\ num_sheets' = NumSheets
    /\ grid_size' = GridSize
    /\ start_x' = FloorDiv(converted_sheet_size[1] - GridSize[1], 2)
    /\ start_y' = FloorDiv(converted_sheet_size[2] - GridSize[2], 2)
    /\ sheets' = <<>>
    /\ i' = 0
    /\ pc' = "sheet_loop"
    /\ UNCHANGED <<app, transforms, args, conversions, counts, sheet, j, card, raised, effects>>

(***************************************************************************)
(* Lines 99-191: draw_cut_lines_on_sheet.  The lines it draws on the       *)
(* sheet, in drawing order; a line is its two end points and its width.    *)
(* The parameters converted_card_length and card_width are the sizes with  *)
(* bleed, as generate_pdf passes them.                                     *)
(***************************************************************************)
small_margin == 5

Line(x1, y1, x2, y2, width) ==
    [x1 |-> x1, y1 |-> y1, x2 |-> x2, y2 |-> y2, width |-> width]

HLine(y) ==
    Line(small_margin, y, converted_sheet_size[1] - small_margin, y, line_width)

VLine(x) ==
    Line(x, small_margin, x, converted_sheet_size[2] - small_margin, line_width)

\* a variant of bleed_adjustment that takes the bleed twice
bleed_adjustment_Twice == IF generate_bleed THEN 2 * converted_bleed_size ELSE 0

bleed_adjustment == IF generate_bleed THEN converted_bleed_size ELSE 0

TopEdges ==
    [r \in 1 .. num_cards_y |->
        HLine(start_y + bleed_adjustment
              + (r - 1) * (converted_card_length + converted_gutter_margin_size))]

BottomEdges ==
    [r \in 1 .. num_cards_y |->
        HLine(start_y + bleed_adjustment + no_bleed_card_size.length
              + (r - 1) * (converted_card_length + converted_gutter_margin_size))]

LeftEdges ==
    [c \in 1 .. num_cards_x |->
        VLine(start_x + bleed_adjustment
              + (c - 1) * (card_width + converted_gutter_margin_size))]

RightEdges ==
    [c \in 1 .. num_cards_x |->
        VLine(start_x + bleed_adjustment + no_bleed_card_size.width
              + (c - 1) * (card_width + converted_gutter_margin_size))]

CutLines == TopEdges \o BottomEdges \o LeftEdges \o RightEdges

\* what a sheet records of a call of draw_cut_lines_on_sheet and of paste
DrawCall(lines) ==
    [op |-> "draw_cut_lines", card |-> NoCard, x |-> 0, y |-> 0, lines |-> lines]

PasteCall(c, x, y) ==
    [op |-> "paste", card |-> c, x |-> x, y |-> y, lines |-> <<>>]

draw_cut_lines_on_sheet(s) == [s EXCEPT !.calls = Append(@, DrawCall(CutLines))]

(***************************************************************************)
(* Lines 298-299: the loop over the sheets, a blank white sheet.           *)
(***************************************************************************)
NewSheet ==
    /\ pc = "sheet_loop"
    /\ i < num_sheets
    /\ sheet' = [index |-> i, size |-> converted_sheet_size, calls |-> <<>>]
    /\ pc' = "margin"
    /\ UNCHANGED <<app, transforms, args, conversions, counts, plan, sheets, i, j, card, raised,
                   effects>>

(***************************************************************************)
(* Lines 301-305 and 351-355: the last-sheet guard of both calls.          *)
(***************************************************************************)
\* a variant of LastSheetGuard whose comparison is off by one
LastSheetGuard_OffByOne == ~no_cut_lines_on_last_sheet \/ i < num_sheets

LastSheetGuard == ~no_cut_lines_on_last_sheet \/ i < num_sheets - 1

(***************************************************************************)
(* Lines 301-320: cut lines drawn before the cards are pasted.             *)
(***************************************************************************)
\* a variant of DrawMargin whose call passes generate_bleed as False, so that
\* its lines are not moved by the bleed
DrawMargin_NoBleedArgument ==
    /\ pc = "margin"
    /\ sheet' = IF draw_cut_lines /\ cut_lines_on_margin_only /\ LastSheetGuard
                   THEN [sheet EXCEPT !.calls = Append(@, DrawCall(
                            [n \in DOMAIN CutLines |->
                                [CutLines[n] EXCEPT
                                    !.x1 = IF @ = small_margin THEN @ ELSE @ - bleed_adjustment,
                                    !.x2 = IF CutLines[n].x1 = small_margin THEN @
                                           ELSE @ - bleed_adjustment,
                                    !.y1 = IF @ = small_margin THEN @ ELSE @ - bleed_adjustment,
                                    !.y2 = IF CutLines[n].y1 = small_margin THEN @
                                           ELSE @ - bleed_adjustment]]))]
                   ELSE sheet
    /\ j' = 0
    /\ pc' = "card_loop"
    /\ UNCHANGED <<app, transforms, args, conversions, counts, plan, sheets, i, card, raised,
                   effects>>

DrawMargin ==
    /\ pc = "margin"
    /\ sheet' = IF draw_cut_lines /\ cut_lines_on_margin_only /\ LastSheetGuard
                   THEN draw_cut_lines_on_sheet(sheet)
                   ELSE sheet
    /\ j' = 0
    /\ pc' = "card_loop"
    /\ UNCHANGED <<app, transforms, args, conversions, counts, plan, sheets, i, card, raised,
                   effects>>

(***************************************************************************)
(* Lines 322-326: the loop over the slots of the sheet; it ends when the   *)
(* slots or the images are used up.                                        *)
(***************************************************************************)
\* a variant of ImageIndex that counts one row of cards per sheet
ImageIndex_OneRow == i * num_cards_x + j

ImageIndex == i * num_cards_x * num_cards_y + j

MoreCards == j < num_cards_x * num_cards_y /\ ImageIndex < Len(images)

NextCard ==
    /\ pc = "card_loop"
    /\ MoreCards
    /\ card' = [image |-> ImageIndex,
                width |-> images[ImageIndex + 1][1],
                height |-> images[ImageIndex + 1][2],
                sharpened |-> FALSE, bled |-> FALSE]
    /\ pc' = "resize"
    /\ UNCHANGED <<app, transforms, args, conversions, counts, plan, sheets, sheet, i, j, raised,
                   effects>>

EndCards ==
    /\ pc = "card_loop"
    /\ ~MoreCards
    /\ pc' = "overlay"
    /\ UNCHANGED <<app, transforms, args, conversions, counts, plan, sheets, sheet, i, j, card,
                   raised, effects>>

(***************************************************************************)
(* Lines 328-337: resize, sharpen, bleed.  Each is a call into a library   *)
(* that may raise; generate_pdf has no handler, so the exception leaves    *)
(* the function.                                                           *)
(***************************************************************************)
\* a variant of Raise in which the exception is caught and the card skipped
Raise_SkipCard(e) ==
    /\ raised' = e
    /\ j' = j + 1
    /\ pc' = "card_loop"
    /\ UNCHANGED <<app, transforms, args, conversions, counts, plan, sheets, sheet, i, card,
                   effects>>

Raise(e) ==
    /\ raised' = e
    /\ pc' = "raised"
    /\ UNCHANGED <<app, transforms, args, conversions, counts, plan, sheets, sheet, i, j, card,
                   effects>>

\* a variant of AfterResize that makes the bleed before the sharpening
AfterResize_BleedFirst == IF generate_bleed THEN "bleed"
                          ELSE IF sharpen_text THEN "sharpen" ELSE "paste"

AfterResize == IF sharpen_text THEN "sharpen"
               ELSE IF generate_bleed THEN "bleed" ELSE "paste"

\* a variant of Resize that resizes the image of the list in place
Resize_InPlace ==
    /\ pc = "resize"
    /\ images' = [images EXCEPT ![card.image + 1] =
                     <<no_bleed_card_size.width, no_bleed_card_size.length>>]
    /\ card' = [card EXCEPT !.width = no_bleed_card_size.width,
                            !.height = no_bleed_card_size.length]
    /\ pc' = AfterResize
    /\ UNCHANGED <<app, transforms, sheet_size, card_length, dpi, draw_cut_lines,
                   generate_bleed, sharpen_text, gutter_margin_size,
                   cut_lines_on_margin_only, no_cut_lines_on_last_sheet,
                   bleed_width, line_width, conversions, counts, plan, sheets,
                   sheet, i, j, raised, effects>>

Resize ==
    /\ pc = "resize"
    /\ card' = [card EXCEPT !.width = no_bleed_card_size.width,
                            !.height = no_bleed_card_size.length]
    /\ pc' = AfterResize
    /\ UNCHANGED <<app, transforms, args, conversions, counts, plan, sheets, sheet, i, j, raised,
                   effects>>

ResizeFails == pc = "resize" /\ Raise("resize:329")

Sharpen ==
    /\ pc = "sharpen"
    /\ card' = [card EXCEPT !.sharpened = TRUE]
    /\ pc' = IF generate_bleed THEN "bleed" ELSE "paste"
    /\ UNCHANGED <<app, transforms, args, conversions, counts, plan, sheets, sheet, i, j, raised,
                   effects>>

SharpenFails == pc = "sharpen" /\ Raise("sharpen_text_on_image:333")

Bleed ==
    /\ pc = "bleed"
    /\ card' = [card EXCEPT !.width = @ + 2 * converted_bleed_size,
                            !.height = @ + 2 * converted_bleed_size,
                            !.bled = TRUE]
    /\ pc' = "paste"
    /\ UNCHANGED <<app, transforms, args, conversions, counts, plan, sheets, sheet, i, j, raised,
                   effects>>

BleedFails == pc = "bleed" /\ Raise("generate_bleed_for_image:337")

(***************************************************************************)
(* Lines 339-349: the position of slot j and the paste.                    *)
(***************************************************************************)
SlotX == start_x + PyMod(j, num_cards_x) * (card_width + converted_gutter_margin_size)

\* a variant of SlotY that takes the row of a slot from the number of rows
SlotY_ByRows ==
    start_y + FloorDiv(j, num_cards_y)
              * (converted_card_length + converted_gutter_margin_size)

SlotY ==
    start_y + FloorDiv(j, num_cards_x)
              * (converted_card_length + converted_gutter_margin_size)

Paste ==
    /\ pc = "paste"
    /\ sheet' = [sheet EXCEPT !.calls = Append(@, PasteCall(card, SlotX, SlotY))]
    /\ j' = j + 1
    /\ pc' = "card_loop"
    /\ UNCHANGED <<app, transforms, args, conversions, counts, plan, sheets, i, card, raised,
                   effects>>

(***************************************************************************)
(* Lines 351-372: cut lines drawn over the pasted cards, and the sheet     *)
(* appended to the list.                                                   *)
(***************************************************************************)
\* a variant of DrawOverlay that does not look at cut_lines_on_margin_only
DrawOverlay_AnyMode ==
    /\ pc = "overlay"
    /\ sheet' = IF draw_cut_lines /\ LastSheetGuard
                   THEN draw_cut_lines_on_sheet(sheet)
                   ELSE sheet
    /\ pc' = "append"
    /\ UNCHANGED <<app, transforms, args, conversions, counts, plan, sheets, i, j, card, raised,
                   effects>>

DrawOverlay ==
    /\ pc = "overlay"
    /\ sheet' = IF draw_cut_lines /\ ~cut_lines_on_margin_only /\ LastSheetGuard
                   THEN draw_cut_lines_on_sheet(sheet)
                   ELSE sheet
    /\ pc' = "append"
    /\ UNCHANGED <<app, transforms, args, conversions, counts, plan, sheets, i, j, card, raised,
                   effects>>

\* a variant of AppendSheet that puts the sheet in front of the list
AppendSheet_InFront ==
    /\ pc = "append"
    /\ sheets' = <<sheet>> \o sheets
    /\ i' = i + 1
    /\ pc' = "sheet_loop"
    /\ UNCHANGED <<app, transforms, args, conversions, counts, plan, sheet, j, card, raised,
                   effects>>

AppendSheet ==
    /\ pc = "append"
    /\ sheets' = Append(sheets, sheet)
    /\ i' = i + 1
    /\ pc' = "sheet_loop"
    /\ UNCHANGED <<app, transforms, args, conversions, counts, plan, sheet, j, card, raised,
                   effects>>

EndSheets ==
    /\ pc = "sheet_loop"
    /\ ~(i < num_sheets)
    /\ pc' = "save"
    /\ UNCHANGED <<app, transforms, args, conversions, counts, plan, sheets, sheet, i, j, card,
                   raised, effects>>

(***************************************************************************)
(* Lines 374-384: the directory is made and the sheets are saved as one    *)
(* document; sheets[0] raises IndexError on an empty list.                 *)
(***************************************************************************)
\* a variant of Save that appends every sheet to the first one
Save_AppendAll ==
    /\ pc = "save"
    /\ dirs_made' = Append(dirs_made, "output_dir/pdf")
    /\ IF Len(sheets) = 0
          THEN /\ raised' = "IndexError:377"
               /\ pc' = "raised"
               /\ UNCHANGED saved
          ELSE /\ saved' = Append(saved, [base |-> Head(sheets),
                                          append_images |-> sheets,
                                          resolution |-> dpi])
               /\ pc' = "open"
               /\ UNCHANGED raised
    /\ UNCHANGED <<app, transforms, args, conversions, counts, plan, sheets, sheet, i, j, card,
                   error_log, opened>>

Save ==
    /\ pc = "save"
    /\ dirs_made' = Append(dirs_made, "output_dir/pdf")
    /\ IF Len(sheets) = 0
          THEN /\ raised' = "IndexError:377"
               /\ pc' = "raised"
               /\ UNCHANGED saved
          ELSE /\ saved' = Append(saved, [base |-> Head(sheets),
                                          append_images |-> Tail(sheets),
                                          resolution |-> dpi])
               /\ pc' = "open"
               /\ UNCHANGED raised
    /\ UNCHANGED <<app, transforms, args, conversions, counts, plan, sheets, sheet, i, j, card,
                   error_log, opened>>

(***************************************************************************)
(* Lines 386-387: the document is opened in the viewer.                    *)
(***************************************************************************)
OpenViewer ==
    /\ pc = "open"
    /\ opened' = opened + 1
    /\ pc' = "returned"
    /\ UNCHANGED <<app, transforms, args, conversions, counts, plan, sheets, sheet, i, j, card,
                   raised, error_log, dirs_made, saved>>

Next ==
    \/ Convert
    \/ CountCards
    \/ PlanGrid
    \/ NewSheet
    \/ DrawMargin
    \/ NextCard
    \/ EndCards
    \/ Resize
    \/ ResizeFails
    \/ Sharpen
    \/ SharpenFails
    \/ Bleed
    \/ BleedFails
    \/ Paste
    \/ DrawOverlay
    \/ AppendSheet
    \/ EndSheets
    \/ Save
    \/ OpenViewer

Spec == Init /\ [][Next]_vars

(***************************************************************************)
(* The call of test_generate_pdf_basic (tests/test_generate_pdf.py): a     *)
(* 3060x3960 sheet at 300 dpi, a card length of 1254 and images of 100x50, *)
(* with any number of images and any flags.  The gutter is the 5 of the    *)
(* test, in millimetres, or the 0.5 mm that makes 5 pixels.                *)
(***************************************************************************)
InitEndToEnd ==
    /\ \E n \in 0 .. MaxImages : images = [k \in 1 .. n |-> <<100, 50>>]
    /\ sheet_size = <<3060, 3960>>
    /\ card_length = 1254
    /\ dpi = 300
    /\ draw_cut_lines \in BOOLEAN
    /\ generate_bleed \in BOOLEAN
    /\ sharpen_text \in BOOLEAN
    /\ gutter_margin_size \in {5, 50}
    /\ cut_lines_on_margin_only \in BOOLEAN
    /\ no_cut_lines_on_last_sheet \in BOOLEAN
    /\ bleed_width \in BleedWidths
    /\ line_width \in LineWidths
    /\ Start

SpecEndToEnd == InitEndToEnd /\ [][Next]_vars

(***************************************************************************)
(* Calls that exercise the unit conversions of lines 235-240 and 256: the  *)
(* Letter sheet, a preset card length, a resolution from ConversionDpis,   *)
(* a gutter from ConversionGutters (tenths of a millimetre; the entry      *)
(* widget takes any number, negative ones included) and a bleed width from *)
(* ConversionBleeds.                                                       *)
(***************************************************************************)
ConversionDpis == {0, 72, 150, 300, 360}

ConversionGutters == {-5, 0, 5, 32, 100}

ConversionBleeds == {15, 30}

ConversionCardLengths == {1045, 734}

MaxConversionImages == 2

InitConversions ==
    /\ \E n \in 0 .. MaxConversionImages : images = [k \in 1 .. n |-> <<734, 1045>>]
    /\ sheet_size = <<2550, 3300>>
    /\ card_length \in ConversionCardLengths
    /\ dpi \in ConversionDpis
    /\ draw_cut_lines \in BOOLEAN
    /\ generate_bleed \in BOOLEAN
    /\ sharpen_text \in BOOLEAN
    /\ gutter_margin_size \in ConversionGutters
    /\ cut_lines_on_margin_only \in BOOLEAN
    /\ no_cut_lines_on_last_sheet \in BOOLEAN
    /\ bleed_width \in ConversionBleeds
    /\ line_width \in LineWidths
    /\ Start

SpecConversions == InitConversions /\ [][Next]_vars

(***************************************************************************)
(* Pillow's operations on images.  Image.new fills with one value; crop    *)
(* takes the box (left, upper, right, lower) and fills what lies outside   *)
(* the image with 0; transpose mirrors; paste overwrites the part of the   *)
(* destination that the source covers at (x, y).                           *)
(***************************************************************************)
MaxWidth == 2

MaxHeight == 2

MaxBleed == 3

\* the values of the pixels of an input image
Values == {60, 200}

\* "white"
White == 255

Images ==
    UNION {[width : {w}, height : {h}, px : [Points(w, h) -> Values]] :
              <<w, h>> \in (1 .. MaxWidth) \X (1 .. MaxHeight)}

Image_new(w, h, value) ==
    [width |-> w, height |-> h, px |-> [p \in Points(w, h) |-> value]]

crop(im, left, upper, right, lower) ==
    [width |-> right - left,
     height |-> lower - upper,
     px |-> [p \in Points(right - left, lower - upper) |->
                IF <<p[1] + left, p[2] + upper>> \in Points(im.width, im.height)
                THEN im.px[<<p[1] + left, p[2] + upper>>]
                ELSE 0]]

\* a variant of FLIP_LEFT_RIGHT that copies the strip as it is
FLIP_LEFT_RIGHT_Copy(im) ==
    [im EXCEPT !.px = [p \in Points(im.width, im.height) |-> im.px[p]]]

FLIP_LEFT_RIGHT(im) ==
    [im EXCEPT !.px = [p \in Points(im.width, im.height) |->
                          im.px[<<im.width - 1 - p[1], p[2]>>]]]

FLIP_TOP_BOTTOM(im) ==
    [im EXCEPT !.px = [p \in Points(im.width, im.height) |->
                          im.px[<<p[1], im.height - 1 - p[2]>>]]]

paste(dst, src, x, y) ==
    [dst EXCEPT !.px = [p \in Points(dst.width, dst.height) |->
                           IF <<p[1] - x, p[2] - y>> \in Points(src.width, src.height)
                           THEN src.px[<<p[1] - x, p[2] - y>>]
                           ELSE dst.px[p]]]

(***************************************************************************)
(* generate_bleed_for_image, lines 15-54, statement by statement.          *)
(***************************************************************************)
generate_pdf_vars ==
    <<args, conversions, counts, plan, sheets, sheet, i, j, card, raised,
      effects>>

\* lines 27-32
CropRegions ==
    /\ pc = "crop"
    /\ left_region' = crop(image, 0, 0, bleed_size, image.height)
    /\ bottom_region' =
          crop(image, 0, image.height - bleed_size, image.width, image.height)
    /\ right_region' =
          crop(image, image.width - bleed_size, 0, image.width, image.height)
    /\ top_region' = crop(image, 0, 0, image.width, bleed_size)
    /\ pc' = "new_image"
    /\ UNCHANGED <<app, generate_pdf_vars, sharpen_locals, image, bleed_size, new_image>>

\* lines 35-37
NewCanvas ==
    /\ pc = "new_image"
    /\ new_image' = Image_new(image.width + 2 * bleed_size,
                              image.height + 2 * bleed_size, White)
    /\ pc' = "paste_image"
    /\ UNCHANGED <<app, generate_pdf_vars, sharpen_locals, image, bleed_size, left_region,
                   bottom_region, right_region, top_region>>

\* a variant of PasteImage that leaves the canvas as it is
PasteImage_Skipped ==
    /\ pc = "paste_image"
    /\ pc' = "paste_left"
    /\ UNCHANGED <<app, generate_pdf_vars, sharpen_locals, image, bleed_size, bleed_locals>>

\* line 40
PasteImage ==
    /\ pc = "paste_image"
    /\ new_image' = paste(new_image, image, bleed_size, bleed_size)
    /\ pc' = "paste_left"
    /\ UNCHANGED <<app, generate_pdf_vars, sharpen_locals, image, bleed_size, left_region,
                   bottom_region, right_region, top_region>>

\* line 43
PasteLeft ==
    /\ pc = "paste_left"
    /\ new_image' = paste(new_image, FLIP_LEFT_RIGHT(left_region), 0, bleed_size)
    /\ pc' = "paste_bottom"
    /\ UNCHANGED <<app, generate_pdf_vars, sharpen_locals, image, bleed_size, left_region,
                   bottom_region, right_region, top_region>>

\* lines 44-47
PasteBottom ==
    /\ pc = "paste_bottom"
    /\ new_image' = paste(new_image, FLIP_TOP_BOTTOM(bottom_region),
                          bleed_size, image.height + bleed_size)
    /\ pc' = "paste_right"
    /\ UNCHANGED <<app, generate_pdf_vars, sharpen_locals, image, bleed_size, left_region,
                   bottom_region, right_region, top_region>>

\* a variant of PasteRight that forgets the bleed on the left of the image
PasteRight_AtImageWidth ==
    /\ pc = "paste_right"
    /\ new_image' = paste(new_image, FLIP_LEFT_RIGHT(right_region),
                          image.width, bleed_size)
    /\ pc' = "paste_top"
    /\ UNCHANGED <<app, generate_pdf_vars, sharpen_locals, image, bleed_size, left_region,
                   bottom_region, right_region, top_region>>

\* lines 48-51
PasteRight ==
    /\ pc = "paste_right"
    /\ new_image' = paste(new_image, FLIP_LEFT_RIGHT(right_region),
                          image.width + bleed_size, bleed_size)
    /\ pc' = "paste_top"
    /\ UNCHANGED <<app, generate_pdf_vars, sharpen_locals, image, bleed_size, left_region,
                   bottom_region, right_region, top_region>>

\* lines 52-54: the last paste, and the canvas is returned
PasteTop ==
    /\ pc = "paste_top"
    /\ new_image' = paste(new_image, FLIP_TOP_BOTTOM(top_region), bleed_size, 0)
    /\ pc' = "bleed_returned"
    /\ UNCHANGED <<app, generate_pdf_vars, sharpen_locals, image, bleed_size, left_region,
                   bottom_region, right_region, top_region>>

\* generate_pdf is not running: its arguments and locals are at rest
NoCall ==
    /\ images = <<>>
    /\ sheet_size = <<0, 0>>
    /\ card_length = 0
    /\ dpi = 0
    /\ draw_cut_lines = FALSE
    /\ generate_bleed = FALSE
    /\ sharpen_text = FALSE
    /\ gutter_margin_size = 0
    /\ cut_lines_on_margin_only = FALSE
    /\ no_cut_lines_on_last_sheet = FALSE
    /\ bleed_width = 0
    /\ line_width = 0
    /\ Uncalled

\* a call of generate_bleed_for_image with any image and any bleed
InitBleed ==
    /\ NoCall
    /\ pc = "crop"
    /\ image \in Images
    /\ bleed_size \in 0 .. MaxBleed
    /\ left_region = NoImage
    /\ bottom_region = NoImage
    /\ right_region = NoImage
    /\ top_region = NoImage
    /\ new_image = NoImage
    /\ NoSharpenCall
    /\ NoScriptRun
    /\ NoTooltip

NextBleed ==
    \/ CropRegions
    \/ NewCanvas
    \/ PasteImage
    \/ PasteLeft
    \/ PasteBottom
    \/ PasteRight
    \/ PasteTop

SpecBleed == InitBleed /\ [][NextBleed]_vars

(***************************************************************************)
(* sharpen_text_on_image, lines 57-96.  The array of an image has one      *)
(* value of 0 .. 255 at each point.  pytesseract.image_to_data is an       *)
(* oracle: it returns any rows of boxes (left, top, width, height) that    *)
(* lie in the image, at most MaxBoxes of them.                             *)
(***************************************************************************)
MaxBoxes == 2

Boxes(im) ==
    {b \in [left : 0 .. im.width - 1, top : 0 .. im.height - 1,
            width : 1 .. im.width, height : 1 .. im.height] :
        b.left + b.width <= im.width /\ b.top + b.height <= im.height}

\* the sequences of at most n elements of S
SeqsUpTo(S, n) == UNION {[1 .. k -> S] : k \in 0 .. n}

\* the point p lies in mask[y : y + h, x : x + w] of the box b
InSlice(p, b) ==
    /\ b.left <= p[1] /\ p[1] < b.left + b.width
    /\ b.top <= p[2] /\ p[2] < b.top + b.height

\* cv2.BORDER_REFLECT_101, the default border of GaussianBlur: the index k
\* of -1 .. n mirrored into 0 .. n - 1 without repeating the edge
Reflect101(k, n) ==
    IF n = 1 THEN 0
    ELSE IF k < 0 THEN -k
    ELSE IF k >= n THEN 2 * (n - 1) - k
    ELSE k

\* cv2.GaussianBlur(image_cv, (3, 3), 0): the kernel (1, 2, 1) / 4 in both
\* directions, rounded to the nearest value
GaussianBlur(im) ==
    LET v(p, dx, dy) == im.px[<<Reflect101(p[1] + dx, im.width),
                                Reflect101(p[2] + dy, im.height)>>]
        total(p) ==     v(p, -1, -1) + 2 * v(p, 0, -1) +     v(p, 1, -1)
                  + 2 * v(p, -1,  0) + 4 * v(p, 0,  0) + 2 * v(p, 1,  0)
                  +     v(p, -1,  1) + 2 * v(p, 0,  1) +     v(p, 1,  1)
    IN  [im EXCEPT !.px = [p \in Points(im.width, im.height) |->
                              (total(p) + 8) \div 16]]

\* saturate_cast<uchar>
Saturate(v) == IF v < 0 THEN 0 ELSE IF v > 255 THEN 255 ELSE v

\* cv2.addWeighted(src1, alpha, src2, beta, 0) for whole alpha and beta
addWeighted(src1, alpha, src2, beta) ==
    [src1 EXCEPT !.px = [p \in Points(src1.width, src1.height) |->
                            Saturate(alpha * src1.px[p] + beta * src2.px[p])]]

\* line 68 (and line 71: the grayscale copy is read by the oracle only)
ToArray ==
    /\ pc = "to_array"
    /\ image_cv' = image
    /\ pc' = "detect"
    /\ UNCHANGED <<app, generate_pdf_vars, image, bleed_size, bleed_locals, data,
                   mask, blurred, sharpened, sharpened_image>>

\* lines 74-76
DetectText ==
    /\ pc = "detect"
    /\ data' \in SeqsUpTo(Boxes(image_cv), MaxBoxes)
    /\ mask' = Image_new(image_cv.width, image_cv.height, 0)
    /\ pc' = "mark"
    /\ UNCHANGED <<app, generate_pdf_vars, image, bleed_size, bleed_locals, image_cv,
                   blurred, sharpened, sharpened_image>>

\* lines 77-84, the whole loop
MarkBoxes ==
    /\ pc = "mark"
    /\ mask' = [mask EXCEPT !.px = [p \in Points(mask.width, mask.height) |->
                   IF \E n \in 1 .. Len(data) : InSlice(p, data[n]) THEN 1
                   ELSE mask.px[p]]]
    /\ pc' = "blur"
    /\ UNCHANGED <<app, generate_pdf_vars, image, bleed_size, bleed_locals, image_cv,
                   data, blurred, sharpened, sharpened_image>>

\* line 87
BlurImage ==
    /\ pc = "blur"
    /\ blurred' = GaussianBlur(image_cv)
    /\ pc' = "add_weighted"
    /\ UNCHANGED <<app, generate_pdf_vars, image, bleed_size, bleed_locals, image_cv,
                   data, mask, sharpened, sharpened_image>>

\* line 88
SharpenImage ==
    /\ pc = "add_weighted"
    /\ sharpened' = addWeighted(image_cv, 2, blurred, -1)
    /\ pc' = "apply_mask"
    /\ UNCHANGED <<app, generate_pdf_vars, image, bleed_size, bleed_locals, image_cv,
                   data, mask, blurred, sharpened_image>>

\* a variant of ApplyMask that takes the sharpened array everywhere
ApplyMask_Everywhere ==
    /\ pc = "apply_mask"
    /\ image_cv' = sharpened
    /\ pc' = "from_array"
    /\ UNCHANGED <<app, generate_pdf_vars, image, bleed_size, bleed_locals, data,
                   mask, blurred, sharpened, sharpened_image>>

\* line 91, in the arithmetic of uint8
ApplyMask ==
    /\ pc = "apply_mask"
    /\ image_cv' = [image_cv EXCEPT !.px =
          [p \in Points(image_cv.width, image_cv.height) |->
              ( ((image_cv.px[p] * ((1 - mask.px[p]) % 256)) % 256)
              + ((sharpened.px[p] * mask.px[p]) % 256) ) % 256]]
    /\ pc' = "from_array"
    /\ UNCHANGED <<app, generate_pdf_vars, image, bleed_size, bleed_locals, data,
                   mask, blurred, sharpened, sharpened_image>>

\* lines 94-96
FromArray ==
    /\ pc = "from_array"
    /\ sharpened_image' = image_cv
    /\ pc' = "sharpen_returned"
    /\ UNCHANGED <<app, generate_pdf_vars, image, bleed_size, bleed_locals, image_cv,
                   data, mask, blurred, sharpened>>

\* a call of sharpen_text_on_image with any image
InitSharpen ==
    /\ NoCall
    /\ pc = "to_array"
    /\ image \in Images
    /\ NoBleedCall
    /\ NoSharpenCall
    /\ NoScriptRun
    /\ NoTooltip

NextSharpen ==
    \/ ToArray
    \/ DetectText
    \/ MarkBoxes
    \/ BlurImage
    \/ SharpenImage
    \/ ApplyMask
    \/ FromArray

SpecSharpen == InitSharpen /\ [][NextSharpen]_vars

(***************************************************************************)
(* Any call of the three functions: generate_pdf, or                       *)
(* generate_bleed_for_image or sharpen_text_on_image called alone.         *)
(***************************************************************************)
InitAnyCall == Init \/ InitBleed \/ InitSharpen

NextAnyCall == Next \/ NextBleed \/ NextSharpen

SpecAnyCall == InitAnyCall /\ [][NextAnyCall]_vars

(***************************************************************************)
(* start_script, card_saving_and_loading.py lines 309-521, from the        *)
(* loading of the cards on.  A card is a dict with the optional keys face  *)
(* and back; the image of side key of the k-th card has the number         *)
(* ImageId(k, key).  load_images gives every card one key; the cards that  *)
(* process_tts_object returns may have any keys, and a value of None is    *)
(* admitted too, as line 476 provides for it.  A call of generate_pdf is   *)
(* recorded in pdf_calls; with an empty list it raises IndexError at       *)
(* pdf_generation.py line 247, which start_script does not catch.          *)
(***************************************************************************)
MaxCards == 3

Keys == {"face", "back"}

ImageId(k, key) == 2 * k + (IF key = "face" THEN 0 ELSE 1)

\* the lists of cards the loaders can return
DirectoryCards ==
    UNION {[1 .. n -> {"face", "back"}] : n \in 0 .. MaxCards}

FileCards ==
    UNION {[1 .. n -> [Keys -> {"absent", "none", "image"}]] : n \in 0 .. MaxCards}

FromDirectory(sides) ==
    [k \in 1 .. Len(sides) |->
        [key \in Keys |-> IF sides[k] = key THEN ImageId(k, key) ELSE Absent]]

FromFile(shapes) ==
    [k \in 1 .. Len(shapes) |->
        [key \in Keys |-> CASE shapes[k][key] = "absent" -> Absent
                            [] shapes[k][key] = "none" -> None
                            [] OTHER -> ImageId(k, key)]]

\* line 476: {k: v for k, v in image.items() if v is not None}
RemoveNone(c) == [key \in Keys |-> IF c[key] = None THEN Absent ELSE c[key]]

\* key in image
Has(c, key) == c[key] # Absent

\* lines 480-486
IsDoubleSided(c) == Has(c, "face") /\ Has(c, "back")

\* a variant of IsSingleSided with "or" in the place of "exclusive or"
IsSingleSided_Or(c) == Has(c, "face") \/ Has(c, "back")

IsSingleSided(c) == Has(c, "face") # Has(c, "back")

\* [image[key] for image in cards for key in ["face", "back"]]
RECURSIVE BothSides(_)
BothSides(cards) ==
    IF cards = <<>> THEN <<>>
    ELSE <<Head(cards)["face"], Head(cards)["back"]>> \o BothSides(Tail(cards))

\* [image[key] for image in cards for key in ["face", "back"] if key in image]
RECURSIVE SidesPresent(_)
SidesPresent(cards) ==
    IF cards = <<>> THEN <<>>
    ELSE (IF Has(Head(cards), "face") THEN <<Head(cards)["face"]>> ELSE <<>>)
         \o (IF Has(Head(cards), "back") THEN <<Head(cards)["back"]>> ELSE <<>>)
         \o SidesPresent(Tail(cards))

generate_pdf_state ==
    <<args, conversions, counts, plan, sheets, sheet, i, j, card, dirs_made,
      saved, opened>>

\* lines 406-428
LoadImages ==
    /\ pc = "load"
    /\ \/ /\ path = "directory"
          /\ \E sides \in DirectoryCards :
                /\ script_images' = FromDirectory(sides)
                /\ IF Len(sides) = 0
                      THEN raised' = "ImageFilesNotFoundError" /\ pc' = "script_raised"
                      ELSE pc' = "loaded" /\ UNCHANGED raised
          /\ UNCHANGED error_log
       \/ /\ path = "file"
          /\ \E shapes \in FileCards :
                /\ script_images' = FromFile(shapes)
                /\ IF Len(shapes) = 0
                      THEN raised' = "CardsNotFoundError" /\ pc' = "script_raised"
                      ELSE pc' = "loaded" /\ UNCHANGED raised
          /\ UNCHANGED error_log
       \/ /\ path = "invalid"
          /\ script_images' = <<>>
          /\ error_log' = Append(error_log, "Invalid path")
          /\ pc' = "loaded"
          /\ UNCHANGED raised
    /\ UNCHANGED <<generate_pdf_state, transforms, script_args,
                   double_sided_images, single_sided_images, pdf_calls, tooltip>>

\* line 458: nothing more is done when the generation is skipped
SkipPdf ==
    /\ pc = "loaded"
    /\ skip_pdf_generation
    /\ pc' = "script_returned"
    /\ UNCHANGED <<generate_pdf_state, raised, error_log, transforms, script_args,
                   script_locals, pdf_calls, tooltip>>

\* generate_pdf_wrapper(_images, filename), then on to the position after
generate_pdf_wrapper(_images, filename, after) ==
    /\ pdf_calls' = Append(pdf_calls, [images |-> _images, filename |-> filename])
    /\ IF _images = <<>>
          THEN raised' = "IndexError:247" /\ pc' = "script_raised"
          ELSE pc' = after /\ UNCHANGED raised

\* lines 476-502: the None values are removed and the cards are split
SplitCards ==
    /\ pc = "loaded"
    /\ ~skip_pdf_generation
    /\ split_double_and_single
    /\ LET images_ == [k \in 1 .. Len(script_images) |-> RemoveNone(script_images[k])]
       IN  /\ script_images' = images_
           /\ double_sided_images' = BothSides(SelectSeq(images_, IsDoubleSided))
           /\ single_sided_images' = SidesPresent(SelectSeq(images_, IsSingleSided))
    /\ pc' = "dispatch"
    /\ UNCHANGED <<generate_pdf_state, raised, error_log, transforms, script_args,
                   pdf_calls, tooltip>>

\* lines 504-506, the first call
GenerateSingleOfBoth ==
    /\ pc = "dispatch"
    /\ ~double_only /\ ~single_only
    /\ generate_pdf_wrapper(single_sided_images, "output_single.pdf", "second")
    /\ UNCHANGED <<generate_pdf_state, error_log, transforms, script_args,
                   script_locals, tooltip>>

\* line 507, the second call
GenerateDoubleOfBoth ==
    /\ pc = "second"
    /\ generate_pdf_wrapper(double_sided_images, "output_double.pdf", "script_returned")
    /\ UNCHANGED <<generate_pdf_state, error_log, transforms, script_args,
                   script_locals, tooltip>>

\* lines 508-510
GenerateDoubleOnly ==
    /\ pc = "dispatch"
    /\ ~(~double_only /\ ~single_only)
    /\ double_only
    /\ generate_pdf_wrapper(double_sided_images, "output_double.pdf", "script_returned")
    /\ UNCHANGED <<generate_pdf_state, error_log, transforms, script_args,
                   script_locals, tooltip>>

\* lines 511-513
GenerateSingleOnly ==
    /\ pc = "dispatch"
    /\ ~(~double_only /\ ~single_only)
    /\ ~double_only
    /\ single_only
    /\ generate_pdf_wrapper(single_sided_images, "output_single.pdf", "script_returned")
    /\ UNCHANGED <<generate_pdf_state, error_log, transforms, script_args,
                   script_locals, tooltip>>

\* lines 476 and 514-521: without the split, one document of all images
GenerateAll ==
    /\ pc = "loaded"
    /\ ~skip_pdf_generation
    /\ ~split_double_and_single
    /\ LET images_ == [k \in 1 .. Len(script_images) |-> RemoveNone(script_images[k])]
       IN  /\ script_images' = images_
           /\ generate_pdf_wrapper(SidesPresent(images_), "output.pdf", "script_returned")
    /\ UNCHANGED <<generate_pdf_state, error_log, transforms, script_args,
                   double_sided_images, single_sided_images, tooltip>>

InitScript ==
    /\ NoCall
    /\ image = NoImage
    /\ NoBleedCall
    /\ NoSharpenCall
    /\ NoTooltip
    /\ pc = "load"
    /\ path \in {"directory", "file", "invalid"}
    /\ split_double_and_single \in BOOLEAN
    /\ double_only \in BOOLEAN
    /\ single_only \in BOOLEAN
    /\ skip_pdf_generation \in BOOLEAN
    /\ script_images = <<>>
    /\ double_sided_images = <<>>
    /\ single_sided_images = <<>>
    /\ pdf_calls = <<>>

NextScript ==
    \/ LoadImages
    \/ SkipPdf
    \/ SplitCards
    \/ GenerateSingleOfBoth
    \/ GenerateDoubleOfBoth
    \/ GenerateDoubleOnly
    \/ GenerateSingleOnly
    \/ GenerateAll

SpecScript == InitScript /\ [][NextScript]_vars

(***************************************************************************)
(* Tooltip, tooltip.py.  Tk holds the timers that widget.after has set and *)
(* that have neither fired nor been cancelled (timers) and the Toplevel    *)
(* windows that exist (windows); both are numbered by the event that made  *)
(* them.  The events are the mouse entering and leaving the widget and a   *)
(* timer firing, at most MaxEvents of them.                                *)
(***************************************************************************)
MaxEvents == 8

rest_of_state ==
    <<args, conversions, counts, plan, sheets, sheet, i, j, card, pc, raised,
      effects, transforms, script_args, script_locals, pdf_calls>>

\* lines 52-58: after_cancel of a timer that has fired does nothing
unschedule(pending) == IF id # None THEN pending \ {id} ELSE pending

\* lines 30-35 and 45-50
enter ==
    /\ pc = "mainloop"
    /\ events < MaxEvents
    /\ events' = events + 1
    /\ id' = events + 1
    /\ timers' = unschedule(timers) \cup {events + 1}
    /\ last_event' = "enter"
    /\ UNCHANGED <<rest_of_state, tip_window, windows>>

\* lines 37-43 and 78-84
leave ==
    /\ pc = "mainloop"
    /\ events < MaxEvents
    /\ events' = events + 1
    /\ timers' = unschedule(timers)
    /\ id' = None
    /\ windows' = IF tip_window # None THEN windows \ {tip_window} ELSE windows
    /\ tip_window' = None
    /\ last_event' = "leave"
    /\ UNCHANGED rest_of_state

\* lines 60-76: a timer fires and showtip makes the window
showtip ==
    /\ pc = "mainloop"
    /\ events < MaxEvents
    /\ \E t \in timers : timers' = timers \ {t}
    /\ events' = events + 1
    /\ tip_window' = events + 1
    /\ windows' = windows \cup {events + 1}
    /\ last_event' = "timer"
    /\ UNCHANGED <<rest_of_state, id>>

\* line 67: a timer fires and widget.bbox("insert") raises, as it may for a
\* widget without an insertion cursor; Tk reports the error and goes on
showtip_raises ==
    /\ pc = "mainloop"
    /\ events < MaxEvents
    /\ \E t \in timers : timers' = timers \ {t}
    /\ events' = events + 1
    /\ last_event' = "timer"
    /\ UNCHANGED <<rest_of_state, id, tip_window, windows>>

\* lines 15-28
InitTooltip ==
    /\ NoCall
    /\ image = NoImage
    /\ NoBleedCall
    /\ NoSharpenCall
    /\ NoScriptRun
    /\ pc = "mainloop"
    /\ id = None
    /\ tip_window = None
    /\ timers = {}
    /\ windows = {}
    /\ last_event = "none"
    /\ events = 0

NextTooltip ==
    \/ enter
    \/ leave
    \/ showtip
    \/ showtip_raises

SpecTooltip == InitTooltip /\ [][NextTooltip]_vars

(***************************************************************************)
(* Properties of generate_pdf.                                             *)
(***************************************************************************)
LoopPcs == {"sheet_loop", "margin", "card_loop", "resize", "sharpen", "bleed",
            "paste", "overlay", "append"}

TransformErrors == {"resize:329", "sharpen_text_on_image:333",
                    "generate_bleed_for_image:337"}

\* generate_pdf returned after saving and opening the document
Succeeded == pc = "returned" /\ error_log = <<>>

\* generate_pdf returned after logging that no card fits
LayoutImpossible == pc = "returned" /\ error_log # <<>>

\* lines 265-271 have been executed
Counted ==
    /\ pc \notin {"convert", "count"}
    /\ raised \notin {"IndexError:247", "ZeroDivisionError:266"}

\* lines 279-296 have been executed
Planned == Counted /\ pc # "plan" /\ ~LayoutImpossible

\* the sizes the properties speak of
SheetW == converted_sheet_size[1]

SheetH == converted_sheet_size[2]

Gutter == converted_gutter_margin_size

WorkingWidth ==
    IF generate_bleed THEN no_bleed_card_size.width + 2 * converted_bleed_size
    ELSE no_bleed_card_size.width

WorkingLength ==
    IF generate_bleed THEN no_bleed_card_size.length + 2 * converted_bleed_size
    ELSE no_bleed_card_size.length

\* q is the floor of n / d, for d > 0
IsFloor(q, n, d) == q * d <= n /\ n < (q + 1) * d

\* the paste calls of a sheet, in the order they were made
Pastes(s) == SelectSeq(s.calls, LAMBDA c : c.op = "paste")

\* C1: the numbers of cards per row and per column are the floors of
\* (W - 2g) / working_width and (H - 2g) / working_length, the working size
\* being the card size plus twice the bleed when bleed is enabled; a sheet of
\* 2550x3300 with a card of 734x1045, no bleed and no gutter gives 3 and 3.
C1_CardsPerRowAndColumn ==
    Counted =>
        /\ IsFloor(num_cards_x, SheetW - 2 * Gutter, WorkingWidth)
        /\ IsFloor(num_cards_y, SheetH - 2 * Gutter, WorkingLength)
        /\ (/\ converted_sheet_size = <<2550, 3300>>
            /\ no_bleed_card_size = Size(734, 1045)
            /\ ~generate_bleed
            /\ Gutter = 0) => (num_cards_x = 3 /\ num_cards_y = 3)

C1_Witness ==
    /\ Counted
    /\ converted_sheet_size = <<2550, 3300>>
    /\ no_bleed_card_size = Size(734, 1045)
    /\ ~generate_bleed
    /\ Gutter = 0
    /\ num_cards_x = 3
    /\ num_cards_y = 3

\* C2: with at least one image and at least one card per row and per column,
\* the number of sheets is the ceiling of N / (cards_per_row * cards_per_col),
\* and that many sheets are produced; 10 images on a 3x3 grid give 2 sheets.
C2_SheetCount ==
    (Planned /\ Len(images) >= 1 /\ num_cards_x >= 1 /\ num_cards_y >= 1) =>
        /\ (num_sheets - 1) * (num_cards_x * num_cards_y) < Len(images)
        /\ Len(images) <= num_sheets * (num_cards_x * num_cards_y)
        /\ (pc \in {"save", "open", "returned"}) => Len(sheets) = num_sheets
        /\ (Len(images) = 10 /\ num_cards_x = 3 /\ num_cards_y = 3)
              => num_sheets = 2

C2_Witness ==
    /\ Succeeded
    /\ Len(images) = 10
    /\ num_cards_x = 3
    /\ num_cards_y = 3
    /\ Len(sheets) = 2

\* the sheets that hold paste calls: the appended ones and the one in progress
SheetsInWork ==
    IF pc \in (LoopPcs \ {"sheet_loop"}) \/ (pc = "raised" /\ raised \in TransformErrors)
    THEN Append(sheets, sheet)
    ELSE sheets

\* C3: the card pasted in slot k of sheet s is image s * cards_per_row *
\* cards_per_col + k, pasted at x = origin.x + (k mod cards_per_row) *
\* (working_width + g), y = origin.y + (k div cards_per_row) *
\* (working_length + g).
C3_RowMajorPlacement ==
    Planned =>
        \A n \in 1 .. Len(SheetsInWork) :
            LET s == SheetsInWork[n]
                pastes == Pastes(s)
            IN  \A m \in 1 .. Len(pastes) :
                    LET k == m - 1
                        col == IF num_cards_x > 0 THEN k % num_cards_x
                               ELSE -((-k) % (-num_cards_x))
                        row == IF num_cards_x > 0 THEN k \div num_cards_x
                               ELSE (-k) \div (-num_cards_x)
                    IN  /\ pastes[m].card.image
                              = s.index * num_cards_x * num_cards_y + k
                        /\ pastes[m].x = start_x + col * (WorkingWidth + Gutter)
                        /\ pastes[m].y = start_y + row * (WorkingLength + Gutter)

C3_Witness ==
    /\ Succeeded
    /\ Len(sheets) >= 2
    /\ num_cards_x >= 2
    /\ num_cards_y >= 2
    /\ num_cards_x # num_cards_y
    /\ \E m \in 1 .. Len(Pastes(sheets[2])) : Pastes(sheets[2])[m].x > start_x
    /\ \E m \in 1 .. Len(Pastes(sheets[2])) : Pastes(sheets[2])[m].y > start_y

\* the images pasted on the sheets ss, in the order of the pastes
RECURSIVE PastedImages(_)
PastedImages(ss) ==
    IF ss = <<>> THEN <<>>
    ELSE [m \in 1 .. Len(Pastes(Head(ss))) |-> Pastes(Head(ss))[m].card.image]
         \o PastedImages(Tail(ss))

Min(a, b) == IF a <= b THEN a ELSE b

\* C4: after a successful run every image has been pasted exactly once, in
\* the order of the input, sheet by sheet and slot by slot; the pasting on a
\* sheet stops when the slots or the images are used up.
C4_EveryImageOnceInOrder ==
    Succeeded =>
        /\ PastedImages(sheets) = [k \in 1 .. Len(images) |-> k - 1]
        /\ \A n \in 1 .. Len(sheets) :
              Len(Pastes(sheets[n]))
                 = Min(num_cards_x * num_cards_y,
                       Len(images) - (n - 1) * num_cards_x * num_cards_y)

\* C5: when the number of cards per row or per column is 0, generate_pdf
\* logs the error and returns: no sheet is composed, no directory is made,
\* no document is saved and the viewer is not opened.
C5_LayoutImpossible ==
    (Counted /\ (num_cards_x = 0 \/ num_cards_y = 0)) =>
        /\ pc = "returned"
        /\ raised = "none"
        /\ Len(error_log) = 1
        /\ sheets = <<>>
        /\ sheet = NoSheet
        /\ dirs_made = <<>>
        /\ saved = <<>>
        /\ opened = 0

C5_Witness ==
    /\ LayoutImpossible
    /\ num_cards_x # 0
    /\ num_cards_y = 0
    /\ saved = <<>>

\* C6: whenever the card is wider than sheet_width - 2 * gutter or longer than
\* sheet_height - 2 * gutter, also when 2 * gutter exceeds the sheet,
\* generate_pdf ends in the layout-impossible outcome and neither raises nor
\* composes a sheet; so whenever a sheet is composed there is at least one
\* card per row and per column.
C6_TooLargeIsLayoutImpossible ==
    /\ (/\ Counted
        /\ \/ WorkingWidth > SheetW - 2 * Gutter
           \/ WorkingLength > SheetH - 2 * Gutter)
          => (LayoutImpossible /\ raised = "none" /\ sheets = <<>>)
    /\ (Planned /\ Len(SheetsInWork) >= 1)
          => (num_cards_x >= 1 /\ num_cards_y >= 1)

\* C7: given no image, generate_pdf reports an empty-input error and returns;
\* it neither raises nor saves a document.
C7_EmptyInputRejected ==
    (Len(images) = 0 /\ pc # "convert") =>
        /\ pc = "returned"
        /\ raised = "none"
        /\ error_log # <<>>
        /\ saved = <<>>

\* C8: when the resize, sharpen or bleed step of a card raises, generate_pdf
\* ends there: the cards before the failing one are pasted, the failing one
\* and those after it are not, nothing happens afterwards, and no directory
\* is made, no document saved and no viewer opened, however many sheets were
\* composed before.
C8_FailFast ==
    /\ [](raised \in TransformErrors =>
            /\ pc = "raised"
            /\ Len(sheets) = i
            /\ PastedImages(SheetsInWork) = [k \in 1 .. card.image |-> k - 1]
            /\ dirs_made = <<>>
            /\ saved = <<>>
            /\ opened = 0)
    /\ [][(raised \in TransformErrors) => (vars' = vars)]_vars

C8_Witness ==
    /\ raised \in TransformErrors
    /\ pc = "raised"
    /\ Len(sheets) >= 2
    /\ j >= 1
    /\ saved = <<>>

\* the step of the sheet loop a position belongs to
Phase(p) ==
    CASE p = "sheet_loop" -> 0
      [] p = "margin" -> 1
      [] p \in {"card_loop", "resize", "sharpen", "bleed", "paste"} -> 2
      [] p = "overlay" -> 3
      [] p = "append" -> 4
      [] OTHER -> 5

\* C9: the sheets are processed in the order 0 .. num_sheets - 1; each starts
\* as a blank sheet of the converted sheet size, then gets its cards, then is
\* appended to the list, and no step or sheet is gone back to; after the run
\* the list holds num_sheets sheets in the order of their indices.
C9_SheetsInOrder ==
    /\ [](Planned =>
            /\ \A n \in 1 .. Len(sheets) :
                  sheets[n].index = n - 1 /\ sheets[n].size = converted_sheet_size
            /\ (pc \in LoopPcs) => Len(sheets) = i
            /\ (pc \in LoopPcs \ {"sheet_loop"}) =>
                  (sheet.index = i /\ sheet.size = converted_sheet_size)
            /\ Succeeded => Len(sheets) = num_sheets)
    /\ [][/\ (pc = "sheet_loop" /\ pc' = "margin") =>
                (i < num_sheets /\ sheet'.index = i /\ sheet'.calls = <<>>)
          /\ (pc \in LoopPcs /\ pc' \in LoopPcs) =>
                \/ i' = i /\ sheets' = sheets /\ Phase(pc') >= Phase(pc)
                \/ /\ pc = "append"
                   /\ pc' = "sheet_loop"
                   /\ i' = i + 1
                   /\ sheets' = Append(sheets, sheet)
          /\ (pc \in LoopPcs /\ pc' = "save") =>
                (pc = "sheet_loop" /\ i >= num_sheets)]_vars

C9_Witness ==
    /\ Succeeded
    /\ Len(sheets) >= 3
    /\ \A n \in 1 .. Len(sheets) : sheets[n].index = n - 1
    /\ Len(Pastes(sheets[3])) >= 1

\* draw_cut_lines_on_sheet was called on the sheet
HasCutLines(s) == \E n \in 1 .. Len(s.calls) : s.calls[n].op = "draw_cut_lines"

\* C10: sheet s gets cut lines if and only if draw_cut_lines is set and not
\* (no_cut_lines_on_last_sheet is set and s is the last sheet): with the flag
\* every sheet but the last gets them, without it every sheet does.
C10_CutLinesButOnLastSheet ==
    Planned =>
        \A n \in 1 .. Len(sheets) :
            HasCutLines(sheets[n])
               <=> /\ draw_cut_lines
                   /\ ~(no_cut_lines_on_last_sheet /\ sheets[n].index = num_sheets - 1)

C10_Witness ==
    /\ Succeeded
    /\ draw_cut_lines
    /\ no_cut_lines_on_last_sheet
    /\ num_sheets = 3
    /\ Len(sheets) = 3
    /\ \A n \in 1 .. 2 :
          \E m \in 1 .. Len(sheets[n].calls) : Len(sheets[n].calls[m].lines) >= 4
    /\ ~HasCutLines(sheets[3])

\* the positions, among the calls of a sheet, of the calls of draw_cut_lines_on_sheet
DrawPositions(s) == {n \in 1 .. Len(s.calls) : s.calls[n].op = "draw_cut_lines"}

\* C11: draw_cut_lines_on_sheet runs at most once per sheet; with
\* cut_lines_on_margin_only it runs before the first card of the sheet is
\* pasted, so every card is pasted over the lines, and without it it runs
\* after the last card of the sheet is pasted and before the sheet is
\* appended.
C11_OneCallBeforeOrAfterTheCards ==
    /\ [](Planned =>
            \A n \in 1 .. Len(SheetsInWork) :
                LET s == SheetsInWork[n]
                IN  /\ Cardinality(DrawPositions(s)) <= 1
                    /\ cut_lines_on_margin_only => DrawPositions(s) \subseteq {1}
                    /\ (~cut_lines_on_margin_only) =>
                          /\ DrawPositions(s) \subseteq {Len(s.calls)}
                          /\ (DrawPositions(s) # {}) =>
                                (Len(Pastes(s)) = Len(s.calls) - 1
                                 /\ (n > Len(sheets) => pc = "append")))
    /\ [][(pc \in LoopPcs /\ DrawPositions(sheet') # DrawPositions(sheet)
              /\ sheet'.index = sheet.index) =>
            \/ (cut_lines_on_margin_only /\ pc = "margin" /\ sheet.calls = <<>>)
            \/ (~cut_lines_on_margin_only /\ pc = "overlay" /\ pc' = "append"
                   /\ ~MoreCards)]_vars

C11_Witness ==
    /\ Succeeded
    /\ cut_lines_on_margin_only
    /\ Len(sheets) >= 2
    /\ DrawPositions(sheets[1]) = {1}
    /\ Len(Pastes(sheets[1])) >= 2
    /\ Len(sheets[1].calls[1].lines) >= 4

\* the offset of the trim edge inside a pasted card: the bleed on one side
TrimOffset(p) == (p.card.width - no_bleed_card_size.width) \div 2

\* the rows of the grid, 0 .. num_cards_y - 1, that hold a pasted card
PastedRows(pastes) ==
    IF num_cards_x >= 1
    THEN {r \in 0 .. num_cards_y - 1 : r * num_cards_x < Len(pastes)}
    ELSE {}

\* C12: on a sheet with cut lines, for every row r and column c of the grid
\* the top, bottom, left and right cut lines of that row and column lie on the
\* top, bottom, left and right edges of the card without bleed of the card
\* pasted in slot (c, r), with bleed (moved by the bleed width) and without.
C12_CutLinesOnTrimEdges ==
    Planned =>
        \A n \in 1 .. Len(SheetsInWork) :
            LET s == SheetsInWork[n]
                pastes == Pastes(s)
            IN  \A d \in DrawPositions(s) :
                    LET lines == s.calls[d].lines
                    IN  \A r \in PastedRows(pastes) : \A c \in 0 .. num_cards_x - 1 :
                            LET k == r * num_cards_x + c
                            IN  /\ Len(lines) = 2 * num_cards_y + 2 * num_cards_x
                                /\ k < Len(pastes) =>
                                     LET p == pastes[k + 1]
                                         top == lines[r + 1]
                                         bottom == lines[num_cards_y + r + 1]
                                         left == lines[2 * num_cards_y + c + 1]
                                         right == lines[2 * num_cards_y + num_cards_x + c + 1]
                                     IN  /\ p.card.bled = generate_bleed
                                         /\ top.y1 = p.y + TrimOffset(p)
                                         /\ top.y2 = top.y1
                                         /\ bottom.y1 = p.y + TrimOffset(p)
                                                        + no_bleed_card_size.length
                                         /\ bottom.y2 = bottom.y1
                                         /\ left.x1 = p.x + TrimOffset(p)
                                         /\ left.x2 = left.x1
                                         /\ right.x1 = p.x + TrimOffset(p)
                                                       + no_bleed_card_size.width
                                         /\ right.x2 = right.x1

C12_Witness ==
    /\ Succeeded
    /\ generate_bleed
    /\ converted_bleed_size > 0
    /\ num_cards_x >= 2
    /\ num_cards_y >= 2
    /\ DrawPositions(sheets[1]) # {}
    /\ Len(Pastes(sheets[1])) = num_cards_x * num_cards_y
    /\ Pastes(sheets[1])[1].card.width
          = no_bleed_card_size.width + 2 * converted_bleed_size

Max(a, b) == IF a >= b THEN a ELSE b

\* the cut lines of a sheet as the arguments of generate_pdf other than
\* cut_lines_on_margin_only decide them: a line along the top and the bottom
\* of every row and along the left and the right of every column of slots
ExpectedCutLines ==
    LET b == IF generate_bleed THEN converted_bleed_size ELSE 0
        rows == Max(num_cards_y, 0)
        cols == Max(num_cards_x, 0)
        ys == [n \in 1 .. 2 * rows |->
                 start_y + b + ((n - 1) % rows) * (WorkingLength + Gutter)
                 + (IF n > rows THEN no_bleed_card_size.length ELSE 0)]
        xs == [n \in 1 .. 2 * cols |->
                 start_x + b + ((n - 1) % cols) * (WorkingWidth + Gutter)
                 + (IF n > cols THEN no_bleed_card_size.width ELSE 0)]
    IN  [n \in 1 .. 2 * rows |->
            [x1 |-> 5, y1 |-> ys[n], x2 |-> SheetW - 5, y2 |-> ys[n],
             width |-> line_width]]
        \o [n \in 1 .. 2 * cols |->
            [x1 |-> xs[n], y1 |-> 5, x2 |-> xs[n], y2 |-> SheetH - 5,
             width |-> line_width]]

\* C13: on every sheet where cut lines are drawn, the lines (end points,
\* number and width) are those that the arguments other than
\* cut_lines_on_margin_only decide, so that both modes draw the same lines;
\* the mode decides only whether they are drawn before or after the pastes.
C13_SameLinesInBothModes ==
    Planned =>
        \A n \in 1 .. Len(SheetsInWork) :
            \A d \in DrawPositions(SheetsInWork[n]) :
                /\ SheetsInWork[n].calls[d].lines = ExpectedCutLines
                /\ d = IF cut_lines_on_margin_only THEN 1
                       ELSE Len(SheetsInWork[n].calls)

C13_Witness ==
    /\ Succeeded
    /\ cut_lines_on_margin_only
    /\ generate_bleed
    /\ converted_bleed_size > 0
    /\ num_cards_x >= 1
    /\ num_cards_y >= 2
    /\ DrawPositions(sheets[1]) = {1}
    /\ sheets[1].calls[1].lines = ExpectedCutLines
    /\ Len(sheets[1].calls) >= 3

\* the call the end-to-end example speaks of, after it has returned
EndToEndExample ==
    /\ Succeeded
    /\ images = [k \in 1 .. 5 |-> <<100, 50>>]
    /\ sheet_size = <<3060, 3960>>
    /\ dpi = 300
    /\ card_length = 1254
    /\ Gutter \in {5, 59}
    /\ ~generate_bleed
    /\ ~draw_cut_lines

\* C14 as stated: the example produces exactly 1 page, which holds all 5
\* cards in row-major order, in the order of the input.
C14_OnePage ==
    EndToEndExample =>
        /\ Len(sheets) = 1
        /\ PastedImages(sheets) = <<0, 1, 2, 3, 4>>

\* C14: the example produces exactly 2 pages: the grid is 1 column by 3 rows,
\* the first page holds cards 0, 1, 2 and the second cards 3, 4, one below
\* the other, in the order of the input, and both pages are saved as one
\* document.
C14_TwoPages ==
    EndToEndExample =>
        /\ num_cards_x = 1
        /\ num_cards_y = 3
        /\ Len(sheets) = 2
        /\ PastedImages(<<sheets[1]>>) = <<0, 1, 2>>
        /\ PastedImages(<<sheets[2]>>) = <<3, 4>>
        /\ \A n \in 1 .. 2 : \A m \in 1 .. Len(Pastes(sheets[n])) :
              /\ Pastes(sheets[n])[m].x = start_x
              /\ Pastes(sheets[n])[m].y = start_y + (m - 1) * (1254 + Gutter)
              /\ Pastes(sheets[n])[m].card.width = 2508
              /\ Pastes(sheets[n])[m].card.height = 1254
        /\ Len(saved) = 1
        /\ saved[1].base = sheets[1]
        /\ saved[1].append_images = <<sheets[2]>>

C14_Witness ==
    /\ EndToEndExample
    /\ Gutter = 5
    /\ Len(sheets) = 2
    /\ Len(Pastes(sheets[1])) = 3
    /\ Len(Pastes(sheets[2])) = 2

\* q is n / d cut off toward zero, for d > 0
IsTrunc(q, n, d) ==
    IF n >= 0 THEN q >= 0 /\ q * d <= n /\ n < (q + 1) * d
    ELSE q <= 0 /\ n <= q * d /\ (q - 1) * d < n

\* the card length in pixels as line 235 left it, before the bleed is added
CardLengthPixels ==
    IF raised = "IndexError:247" THEN converted_card_length
    ELSE no_bleed_card_size.length

\* lines 235-240 have been executed
Converted == pc # "convert"

\* line 256 has been executed
BleedConverted == Converted /\ raised # "IndexError:247" /\ generate_bleed

\* C18: every unit conversion cuts off toward zero: the card length and the
\* sheet dimensions are trunc(value * dpi / 300), the gutter and the bleed are
\* trunc(mm * dpi / 25.4) (millimetres in tenths, hence 254), and at 300 dpi
\* the card length and the sheet dimensions are unchanged.
C18_ConversionsTruncate ==
    /\ Converted =>
          /\ IsTrunc(CardLengthPixels, card_length * dpi, 300)
          /\ IsTrunc(SheetW, sheet_size[1] * dpi, 300)
          /\ IsTrunc(SheetH, sheet_size[2] * dpi, 300)
          /\ IsTrunc(Gutter, gutter_margin_size * dpi, 254)
          /\ dpi = 300 =>
                /\ CardLengthPixels = card_length
                /\ <<SheetW, SheetH>> = sheet_size
    /\ BleedConverted => IsTrunc(converted_bleed_size, bleed_width * dpi, 254)

C18_Witness ==
    /\ BleedConverted
    /\ gutter_margin_size = -5
    /\ dpi = 150
    /\ Gutter = -2
    /\ bleed_width = 15
    /\ converted_bleed_size = 8
    /\ card_length = 1045
    /\ CardLengthPixels = 522

\* round(n / d) as Python rounds, halves to the even neighbour, for n >= 0
Round(n, d) ==
    LET q == n \div d
        r == n % d
    IN  IF 2 * r < d THEN q
        ELSE IF 2 * r > d THEN q + 1
        ELSE IF q % 2 = 0 THEN q ELSE q + 1

\* n / d has a fraction that round() rounds down
RoundsDown(n, d) == 2 * (n % d) < d \/ (2 * (n % d) = d /\ (n \div d) % 2 = 0)

\* C19 as stated: the gutter and the bleed in pixels are
\* round(mm / 25.4 * dpi), for every non-negative mm and every dpi.
C19_Rounded ==
    /\ (Converted /\ gutter_margin_size >= 0) =>
          Gutter = Round(gutter_margin_size * dpi, 254)
    /\ BleedConverted => converted_bleed_size = Round(bleed_width * dpi, 254)

\* C19: for non-negative mm the gutter and the bleed in pixels are
\* mm / 25.4 * dpi with the fraction dropped: never above
\* round(mm / 25.4 * dpi), equal to it exactly when round() rounds that
\* fraction down, and one pixel less otherwise.
C19_FractionDropped ==
    /\ (Converted /\ gutter_margin_size >= 0) =>
          LET n == gutter_margin_size * dpi
          IN  /\ Gutter = IF RoundsDown(n, 254) THEN Round(n, 254)
                          ELSE Round(n, 254) - 1
    /\ BleedConverted =>
          LET n == bleed_width * dpi
          IN  /\ converted_bleed_size = IF RoundsDown(n, 254) THEN Round(n, 254)
                                        ELSE Round(n, 254) - 1

C19_Witness ==
    /\ BleedConverted
    /\ gutter_margin_size = 5
    /\ dpi = 300
    /\ Gutter = 5
    /\ Round(gutter_margin_size * dpi, 254) = 6
    /\ bleed_width = 15
    /\ converted_bleed_size = 17
    /\ Round(bleed_width * dpi, 254) = 18

\* the bleeds in pixels a call with the same resolution could ask for
BleedChoices == {0} \cup {Trunc(b * dpi, 254) : b \in BleedWidths}

\* the gutters in pixels a call with the same resolution could ask for
GutterChoices == {Trunc(g * dpi, 254) : g \in GutterMargins}

\* C20: with the sheet and the card fixed, neither count grows when the bleed
\* or the gutter grows: the counts of this call are at least the counts of the
\* same call with a larger gutter or a larger bleed.
C20_CountsNeverGrow ==
    Counted =>
        \A g \in GutterChoices : \A b \in BleedChoices :
            (g >= Gutter /\ b >= converted_bleed_size) =>
                /\ CardsFit(SheetW, g, no_bleed_card_size.width + 2 * b)
                      <= num_cards_x
                /\ CardsFit(SheetH, g, no_bleed_card_size.length + 2 * b)
                      <= num_cards_y

\* the same, for calls whose gutters leave some of the sheet
C20_CountsNeverGrowOnPositiveArea ==
    (Counted /\ SheetW >= 2 * Gutter /\ SheetH >= 2 * Gutter) =>
        \A g \in GutterChoices : \A b \in BleedChoices :
            (g >= Gutter /\ b >= converted_bleed_size) =>
                /\ CardsFit(SheetW, g, no_bleed_card_size.width + 2 * b)
                      <= num_cards_x
                /\ CardsFit(SheetH, g, no_bleed_card_size.length + 2 * b)
                      <= num_cards_y

\* generate_bleed_for_image has returned new_image
BleedReturned == pc = "bleed_returned"

\* C15: the image returned for an image of w by h and a bleed of b >= 0 is
\* w + 2b by h + 2b, and its point (x + b, y + b) has the value of the point
\* (x, y) of the input, for every point of the input.
C15_BleedSizeAndCentre ==
    BleedReturned =>
        /\ new_image.width = image.width + 2 * bleed_size
        /\ new_image.height = image.height + 2 * bleed_size
        /\ DOMAIN new_image.px = Points(new_image.width, new_image.height)
        /\ \A p \in Points(image.width, image.height) :
              new_image.px[<<p[1] + bleed_size, p[2] + bleed_size>>] = image.px[p]

\* a bleed wider than the image, around an image that is not square and not
\* of one value
C15_Witness ==
    /\ BleedReturned
    /\ bleed_size > image.width
    /\ image.width # image.height
    /\ \E p, q \in DOMAIN image.px : image.px[p] # image.px[q]
    /\ \E p \in DOMAIN new_image.px : new_image.px[p] = 0

\* C16: with a bleed of 0 the image returned has the size of the input and
\* the value of the input at every point.
C16_BleedZeroIsIdentity ==
    (BleedReturned /\ bleed_size = 0) =>
        /\ <<new_image.width, new_image.height>> = <<image.width, image.height>>
        /\ new_image.px = image.px

C16_Witness ==
    /\ BleedReturned
    /\ bleed_size = 0
    /\ image.width = MaxWidth
    /\ image.height = 1
    /\ image.px[<<0, 0>>] # image.px[<<1, 0>>]
    /\ left_region.width = 0
    /\ top_region.height = 0

\* sharpen_text_on_image has returned sharpened_image
SharpenReturned == pc = "sharpen_returned"

\* the point p lies in one of the boxes the detector returned
InDetectedBox(p) == \E n \in 1 .. Len(data) : InSlice(p, data[n])

\* C17: the image returned has the width and the height of the input; a
\* point outside every detected box keeps the value of the input, a point in
\* a detected box has the value of the sharpened array; without boxes the
\* image returned is the input.
C17_SharpenedInBoxesOnly ==
    SharpenReturned =>
        /\ sharpened_image.width = image.width
        /\ sharpened_image.height = image.height
        /\ DOMAIN sharpened_image.px = Points(image.width, image.height)
        /\ \A p \in Points(image.width, image.height) :
              sharpened_image.px[p] =
                  IF InDetectedBox(p) THEN sharpened.px[p] ELSE image.px[p]
        /\ data = <<>> => sharpened_image = image

\* two boxes that leave a point out, and sharpening would change both a
\* point in a box and a point outside the boxes
C17_Witness ==
    /\ SharpenReturned
    /\ Len(data) = MaxBoxes
    /\ \E p \in DOMAIN image.px :
          InDetectedBox(p) /\ sharpened.px[p] # image.px[p]
    /\ \E p \in DOMAIN image.px :
          ~InDetectedBox(p) /\ sharpened.px[p] # image.px[p]


\* C21: a run that returns without an error, under any flags, has made the
\* directory output_dir/pdf, has saved one document, whose base is the first
\* sheet and whose appended images are the other sheets in the order of
\* their indices, and has opened the viewer once; the viewer is opened only
\* after the save, and never is there a second save or a second opening.
C21_SavedOnceThenOpened ==
    /\ [](Succeeded =>
            /\ dirs_made = <<"output_dir/pdf">>
            /\ Len(saved) = 1
            /\ saved[1].base = sheets[1]
            /\ Len(saved[1].append_images) = Len(sheets) - 1
            /\ \A n \in 2 .. Len(sheets) :
                  /\ saved[1].append_images[n - 1] = sheets[n]
                  /\ sheets[n].index = n - 1
            /\ sheets[1].index = 0
            /\ opened = 1)
    /\ [](Len(saved) <= 1 /\ opened <= 1)
    /\ [][opened' # opened => (Len(saved) = 1 /\ saved' = saved)]_vars
    /\ [][saved' # saved => dirs_made' = <<"output_dir/pdf">>]_vars

C21_Witness ==
    /\ Succeeded
    /\ Len(sheets) >= 3
    /\ generate_bleed
    /\ sharpen_text
    /\ draw_cut_lines
    /\ cut_lines_on_margin_only
    /\ opened = 1


\* C22: no step of generate_pdf changes the list of input images or the size
\* of any of them, and no step of generate_bleed_for_image or
\* sharpen_text_on_image changes the size or a pixel of its input image: the
\* resized, sharpened and bled images are held apart from the inputs (card,
\* sharpened_image, new_image), whose values stay what they were.
C22_InputsUnchanged ==
    /\ [][images' = images /\ image' = image]_vars
    /\ [](pc \in {"sharpen", "bleed", "paste"} =>
            /\ <<card.width, card.height>> \in
                  {<<no_bleed_card_size.width, no_bleed_card_size.length>>,
                   <<card_width, converted_card_length>>}
            /\ <<images[card.image + 1][1], images[card.image + 1][2]>> \in ImageSizes)
    /\ [](pc \in {"bleed_returned", "sharpen_returned"} => image \in Images)

\* a card that was resized, sharpened and bled while the image it was made
\* from kept its size
C22_Witness ==
    /\ pc = "paste"
    /\ card.sharpened
    /\ card.bled
    /\ <<card.width, card.height>> # images[card.image + 1]
    /\ card.image >= 1


\* C23: for a bleed b no larger than the width and the height of the image,
\* each band of the image returned mirrors the input about the trim edge: the
\* point at distance k outside the left, right, top or bottom edge has the
\* value of the input's point at distance k inside that edge, k = 1 .. b.
C23_BleedMirrorsEdges ==
    (BleedReturned /\ bleed_size <= image.width /\ bleed_size <= image.height) =>
        LET b == bleed_size
            w == image.width
            h == image.height
        IN  \A k \in 1 .. b :
               /\ \A y \in 0 .. h - 1 :
                     /\ new_image.px[<<b - k, b + y>>] = image.px[<<k - 1, y>>]
                     /\ new_image.px[<<b + w - 1 + k, b + y>>] = image.px[<<w - k, y>>]
               /\ \A x \in 0 .. w - 1 :
                     /\ new_image.px[<<b + x, b - k>>] = image.px[<<x, k - 1>>]
                     /\ new_image.px[<<b + x, b + h - 1 + k>>] = image.px[<<x, h - k>>]

\* a band of two columns and of two rows whose mirror differs from its copy
C23_Witness ==
    /\ BleedReturned
    /\ bleed_size = 2
    /\ image.width = 2
    /\ image.height = 2
    /\ image.px[<<0, 0>>] # image.px[<<1, 0>>]
    /\ image.px[<<0, 0>>] # image.px[<<0, 1>>]
    /\ new_image.px[<<0, 2>>] = image.px[<<1, 0>>]


\* the card in hand has the size resize gave it
CardResized ==
    <<card.width, card.height>> =
        <<no_bleed_card_size.width, no_bleed_card_size.length>>

\* C24: the steps of a card run in the order resize, sharpen (if
\* sharpen_text), bleed (if generate_bleed), paste: sharpening starts right
\* after the resize on a card without bleed, the bleed is made on a card that
\* is sharpened if sharpening is on, and a card is pasted, now and on every
\* sheet so far, only resized, sharpened if sharpening is on and bled if the
\* bleed is on.
C24_ResizeSharpenBleedPaste ==
    /\ [][/\ pc' = "resize" => pc = "card_loop"
          /\ pc' = "sharpen" => (pc = "resize" /\ sharpen_text)
          /\ pc' = "bleed" => (pc \in {"resize", "sharpen"} /\ generate_bleed)
          /\ pc' = "paste" => pc \in {"resize", "sharpen", "bleed"}]_vars
    /\ [](pc = "sharpen" => (CardResized /\ ~card.sharpened /\ ~card.bled))
    /\ [](pc = "bleed" =>
            (CardResized /\ card.sharpened = sharpen_text /\ ~card.bled))
    /\ [](pc = "paste" =>
            /\ card.sharpened = sharpen_text
            /\ card.bled = generate_bleed
            /\ <<card.width, card.height>> = <<card_width, converted_card_length>>)
    /\ [](\A n \in 1 .. Len(SheetsInWork) :
             \A m \in 1 .. Len(Pastes(SheetsInWork[n])) :
                LET c == Pastes(SheetsInWork[n])[m].card
                IN  /\ c.sharpened = sharpen_text
                    /\ c.bled = generate_bleed
                    /\ <<c.width, c.height>> = <<card_width, converted_card_length>>)

\* a sharpened and bled card about to be pasted next to others on a second
\* sheet
C24_Witness ==
    /\ pc = "paste"
    /\ sharpen_text
    /\ generate_bleed
    /\ card.sharpened
    /\ card.bled
    /\ i >= 1
    /\ Len(Pastes(sheet)) >= 1


\* the size resize gave to the card in hand or to a pasted card c
ResizedWidth(c) ==
    c.width - (IF c.bled THEN 2 * converted_bleed_size ELSE 0)

ResizedLength(c) ==
    c.height - (IF c.bled THEN 2 * converted_bleed_size ELSE 0)

\* the card c has the width-to-length ratio of the image it was made from,
\* up to the truncation of the width to a pixel
KeepsItsRatio(c) ==
    LET source == images[c.image + 1]
    IN  IsTrunc(ResizedWidth(c), ResizedLength(c) * source[1], source[2])

\* C25: every card is resized with its own aspect ratio kept: the width of
\* the resized card is its length times the width-to-height ratio of its own
\* source image, cut off to a pixel, for the first image and for every other.
C25_EveryCardKeepsItsRatio ==
    /\ pc \in {"sharpen", "bleed", "paste"} => KeepsItsRatio(card)
    /\ \A n \in 1 .. Len(SheetsInWork) :
          \A m \in 1 .. Len(Pastes(SheetsInWork[n])) :
             KeepsItsRatio(Pastes(SheetsInWork[n])[m].card)

\* the same for the cards whose image has the size of the first image
C25_CardsLikeTheFirstKeepTheirRatio ==
    /\ pc \in {"sharpen", "bleed", "paste"} =>
          (images[card.image + 1] = images[1] => KeepsItsRatio(card))
    /\ \A n \in 1 .. Len(SheetsInWork) :
          \A m \in 1 .. Len(Pastes(SheetsInWork[n])) :
             LET c == Pastes(SheetsInWork[n])[m].card
             IN  images[c.image + 1] = images[1] => KeepsItsRatio(c)


\* the blank margins around the block of card slots: the slot of column c and
\* row r is at start + c * (card + gutter), as lines 340-345 place it
LeftMargin == start_x

RightMargin ==
    SheetW - (start_x + (num_cards_x - 1) * (card_width + Gutter) + card_width)

TopMargin == start_y

BottomMargin ==
    SheetH - (start_y + (num_cards_y - 1) * (converted_card_length + Gutter)
                 + converted_card_length)

\* a and b differ by one at most
WithinOne(a, b) == a - b <= 1 /\ b - a <= 1

\* C26: for counts of 1 or more and a gutter of 0 or more, the block of card
\* slots is centred on the sheet: its left margin equals its right margin and
\* its top margin its bottom margin, up to one pixel.
C26_GridCentred ==
    (Planned /\ num_cards_x >= 1 /\ num_cards_y >= 1 /\ Gutter >= 0) =>
        /\ WithinOne(LeftMargin, RightMargin)
        /\ WithinOne(TopMargin, BottomMargin)

\* the same, as far as it holds: the right margin exceeds the left one by
\* (3 - num_cards_x) gutters, and the bottom one the top one likewise
C26_GridOffCentreByGutters ==
    (Planned /\ num_cards_x >= 1 /\ num_cards_y >= 1 /\ Gutter >= 0) =>
        /\ WithinOne(RightMargin - LeftMargin, (3 - num_cards_x) * Gutter)
        /\ WithinOne(BottomMargin - TopMargin, (3 - num_cards_y) * Gutter)


\* the slot of column c and row r, as lines 340-345 place it
SlotLeft(c) == start_x + c * (card_width + Gutter)

SlotTop(r) == start_y + r * (converted_card_length + Gutter)

\* the slot (c, r) lies on the sheet
SlotOnSheet(c, r) ==
    /\ 0 <= SlotLeft(c)
    /\ SlotLeft(c) + card_width <= SheetW
    /\ 0 <= SlotTop(r)
    /\ SlotTop(r) + converted_card_length <= SheetH

\* the slots of the columns c and d have no pixel in common
ColumnsApart(c, d) ==
    \/ SlotLeft(c) + card_width <= SlotLeft(d)
    \/ SlotLeft(d) + card_width <= SlotLeft(c)

\* the slots of the rows r and s have no pixel in common
RowsApart(r, s) ==
    \/ SlotTop(r) + converted_card_length <= SlotTop(s)
    \/ SlotTop(s) + converted_card_length <= SlotTop(r)

\* no two slots overlap: two slots differ in their column or in their row
NoSlotsOverlap ==
    /\ \A c, d \in 0 .. num_cards_x - 1 : c # d => ColumnsApart(c, d)
    /\ \A r, s \in 0 .. num_cards_y - 1 : r # s => RowsApart(r, s)

\* the layout passed the zero-count check with a sheet of at least two gutters
FeasibleLayout ==
    /\ Planned
    /\ num_cards_x >= 1
    /\ num_cards_y >= 1
    /\ Gutter >= 0
    /\ SheetW >= 2 * Gutter
    /\ SheetH >= 2 * Gutter

\* C27: in such a layout every slot lies inside the sheet and no two slots
\* overlap.
C27_SlotsOnSheetAndApart ==
    FeasibleLayout =>
        /\ \A c \in 0 .. num_cards_x - 1 : \A r \in 0 .. num_cards_y - 1 :
              SlotOnSheet(c, r)
        /\ NoSlotsOverlap

\* the part of it that holds: neighbouring slots do not overlap, and the
\* slots of the first three columns and rows lie inside the sheet
C27_SlotsApartAndFirstThreeOnSheet ==
    FeasibleLayout =>
        /\ \A c \in 0 .. Min(2, num_cards_x - 1) :
              \A r \in 0 .. Min(2, num_cards_y - 1) : SlotOnSheet(c, r)
        /\ \A c \in 0 .. num_cards_x - 2 : ColumnsApart(c, c + 1)
        /\ \A r \in 0 .. num_cards_y - 2 : RowsApart(r, r + 1)


\* the card c has an image on its side key
HasImage(c, key) == c[key] \notin {Absent, None}

\* the elements of the sequence s
Range(s) == {s[n] : n \in 1 .. Len(s)}

\* the sequence s of image numbers is in the order of the cards, the face of
\* a card before its back
InCardOrder(s) == \A m, n \in 1 .. Len(s) : m < n => s[m] < s[n]

\* start_script has split the cards it loaded (lines 478-502)
CardsSplit ==
    /\ split_double_and_single
    /\ ~skip_pdf_generation
    /\ pc \in {"dispatch", "second", "script_returned", "script_raised"}
    /\ raised \notin {"ImageFilesNotFoundError", "CardsNotFoundError"}

\* C28: with split_double_and_single, the double-sided list holds the face
\* then the back of every card that has both images and nothing else, the
\* single-sided list holds the one image of every card that has exactly one
\* and nothing else, both in the order of the cards; a card without images
\* is in neither.  With double_only and single_only both set, the one call
\* of generate_pdf is the one for the double-sided document.
C28_CardsPartitioned ==
    CardsSplit =>
        /\ Range(double_sided_images) =
              {ImageId(k, key) : <<k, key>> \in
                  {q \in (1 .. Len(script_images)) \X Keys :
                      /\ HasImage(script_images[q[1]], "face")
                      /\ HasImage(script_images[q[1]], "back")}}
        /\ Range(single_sided_images) =
              {ImageId(k, key) : <<k, key>> \in
                  {q \in (1 .. Len(script_images)) \X Keys :
                      /\ HasImage(script_images[q[1]], q[2])
                      /\ ~(HasImage(script_images[q[1]], "face")
                             /\ HasImage(script_images[q[1]], "back"))}}
        /\ InCardOrder(double_sided_images)
        /\ InCardOrder(single_sided_images)
        /\ (double_only /\ single_only /\ pc \in {"script_returned", "script_raised"}) =>
              pdf_calls = <<[images |-> double_sided_images,
                             filename |-> "output_double.pdf"]>>

\* a double-sided card between a single-sided one and one without images,
\* with both double_only and single_only set
C28_Witness ==
    /\ CardsSplit
    /\ pc = "script_returned"
    /\ double_only
    /\ single_only
    /\ Len(script_images) = 3
    /\ ~HasImage(script_images[1], "face") /\ HasImage(script_images[1], "back")
    /\ HasImage(script_images[2], "face") /\ HasImage(script_images[2], "back")
    /\ ~HasImage(script_images[3], "face") /\ ~HasImage(script_images[3], "back")
    /\ double_sided_images = <<ImageId(2, "face"), ImageId(2, "back")>>
    /\ single_sided_images = <<ImageId(1, "back")>>
    /\ Len(pdf_calls) = 1


\* C29: when the loading yields at least one card and the generation is not
\* skipped, every call of generate_pdf that start_script makes, with or
\* without the split, is given at least one image.
C29_NoCallWithoutImages ==
    (Len(script_images) >= 1 /\ ~skip_pdf_generation) =>
        \A n \in 1 .. Len(pdf_calls) : pdf_calls[n].images # <<>>

\* the same for the calls without the split, of cards that all have an image
C29_NoCallWithoutImagesUnsplit ==
    (/\ Len(script_images) >= 1
     /\ ~skip_pdf_generation
     /\ ~split_double_and_single
     /\ \E k \in 1 .. Len(script_images) : \E key \in Keys :
           HasImage(script_images[k], key)) =>
        \A n \in 1 .. Len(pdf_calls) : pdf_calls[n].images # <<>>


\* C30: whatever the sequence of enter, leave and timer events, at most one
\* timer is pending and at most one tooltip window exists, and right after a
\* leave no timer is pending and no window exists.
C30_OneTimerOneWindow ==
    /\ Cardinality(timers) <= 1
    /\ Cardinality(windows) <= 1
    /\ last_event = "leave" => (timers = {} /\ windows = {})

\* the part of it about the timers
C30_OneTimer ==
    /\ Cardinality(timers) <= 1
    /\ last_event = "leave" => timers = {}
    /\ tip_window # None => tip_window \in windows

=============================================================================
